---- MODULE Spec2Model ----
(***************************************************************************)
(* Model of the quiz form of src/src/components/quiz-form/QuizForm.tsx:    *)
(* the navigation state kept by the hook useFormLogic (current field,      *)
(* navigation history, answers, error flag) and the submission service     *)
(* MultiActionSubmissionService (filtering, ordering, sequential and       *)
(* parallel execution, retries), and the debounced auto-advance with the   *)
(* refs and the timer behind it.                                           *)
(*                                                                         *)
(* An action of the model is one run-to-completion piece of the program:   *)
(* a whole synchronous handler, or the part of an async function between   *)
(* two suspensions that wait for a timer or for the network.               *)
(***************************************************************************)
EXTENDS Integers, Sequences, FiniteSets, TLC

VARIABLES
    fields,             \* prop: the converted FormPage list
    submissionActions,  \* prop: the configured SubmissionAction list
    executeInParallel,  \* prop
    currentFieldId,     \* useState, line 1192
    navigationHistory,  \* useState, line 1195
    formData,           \* useState, line 1198
    submitted,          \* useState, line 1199
    error,              \* useState, line 1200
    isSubmitting,       \* useState, line 1201
    submissionResult,   \* useState, line 1202
    usedAnswers,        \* the currentValue of each advance still in the history
    run,                \* the handleSubmit / executeActions invocation in flight
    mounted,            \* the component is on the page
    autoAdvance         \* useRef, lines 1205-1213, and the timers of setTimeout

vars == <<fields, submissionActions, executeInParallel, currentFieldId,
          navigationHistory, formData, submitted, error, isSubmitting,
          submissionResult, usedAnswers, run, mounted, autoAdvance>>

props == <<fields, submissionActions, executeInParallel>>

(***************************************************************************)
(* Bounds of the model.                                                    *)
(***************************************************************************)
\* longest navigation history explored (graphs with a back edge can loop)
MaxHistory == 4
\* largest retryAttempts of a configured action
MaxRetry == 3

\* how often an option can be clicked before the auto-advance timer fires
MaxTriggers == 3

(***************************************************************************)
(* Answer values.  A JavaScript value is a tagged record: undefined, a     *)
(* string, or an array of strings.                                         *)
(***************************************************************************)
Undefined == [t |-> "undefined", s |-> "", a |-> << >>]

Str(x) == [t |-> "string", s |-> x, a |-> << >>]

Arr(x) == [t |-> "array", s |-> "", a |-> x]

\* Array.prototype.join(",")
RECURSIVE join(_)
join(a) ==
    IF a = << >> THEN ""
    ELSE IF Len(a) = 1 THEN a[1]
    ELSE a[1] \o "," \o join(Tail(a))

\* fieldValue?.toString() || ""
toStringOrEmpty(v) ==
    IF v.t = "string" THEN v.s
    ELSE IF v.t = "array" THEN join(v.a)
    ELSE ""

\* the option strings a user can pick or type
Options == {"Yes", "No"}

\* what an input can hand to handleInputChange: a radio page one of its
\* options, a text page what was typed
InputValues(type) ==
    IF type = "radio" THEN {Str(o) : o \in Options} ELSE {Str(""), Str("Yes")}

\* what a caller can hand to handleNext as overrideValue: nothing (the next
\* button), the option clicked, the selection left by a checkbox toggle
OverrideValues == {Undefined, Str("Yes"), Arr(<< >>)}

(***************************************************************************)
(* Field graphs.                                                           *)
(***************************************************************************)
FieldIds == {"q1", "q2", "q3"}

\* conditionalNext is a function from answer keys to field ids; a FormPage
\* without the property has hasConditionalNext = FALSE.
NoRules == [k \in {} |-> ""]

FormPage(id, type, required, hasCond, rules, defaultNext) ==
    [id |-> id, type |-> type, required |-> required,
     hasConditionalNext |-> hasCond, conditionalNext |-> rules,
     defaultNext |-> defaultNext, hideNextButton |-> FALSE]

\* the same page with or without its next button (hideNextButton, line 738)
withHideNextButton(page, hide) == [page EXCEPT !.hideNextButton = hide]

\* the result of Array.prototype.find when nothing matches
undefinedField == FormPage("", "", FALSE, FALSE, NoRules, "")

RulesYesNo == [k \in {"Yes", "No"} |-> IF k = "Yes" THEN "q3" ELSE "q2"]

RulesDangling == [k \in {"Yes", "Yes,No"} |-> IF k = "Yes" THEN "ghost" ELSE "q3"]

RulesBack == [k \in {"Yes"} |-> "q1"]

\* the first question: every kind of branching, valid and dangling targets
FirstFields ==
    { FormPage("q1", ty, req, hc, IF hc THEN r ELSE NoRules, d) :
        ty \in {"radio", "checkbox"}, req \in BOOLEAN, hc \in BOOLEAN,
        r \in {RulesYesNo, RulesDangling}, d \in {"", "q3", "ghost"} }

\* the second question: plain, or with a rule that leads back to the first
SecondFields ==
    { FormPage("q2", "text", req, hc, IF hc THEN RulesBack ELSE NoRules, "") :
        req \in BOOLEAN, hc \in BOOLEAN }

\* the last question: plain, or with a rule that leads back to the first
ThirdFields ==
    { FormPage("q3", "text", TRUE, hc, IF hc THEN RulesBack ELSE NoRules, "") :
        hc \in BOOLEAN }

Graphs == { <<f1, f2, f3>> : f1 \in FirstFields, f2 \in SecondFields, f3 \in ThirdFields }

(***************************************************************************)
(* Conditional logic helpers, lines 902-1012.                              *)
(***************************************************************************)
\* fields.findIndex(...): 0-based, -1 when absent
getFieldIndex(fs, fieldId) ==
    IF \E i \in 1..Len(fs) : fs[i].id = fieldId
    THEN (CHOOSE i \in 1..Len(fs) :
              fs[i].id = fieldId /\ \A j \in 1..(i - 1) : fs[j].id # fieldId) - 1
    ELSE -1

findFieldById(fs, fieldId) ==
    IF getFieldIndex(fs, fieldId) = -1 THEN undefinedField
    ELSE fs[getFieldIndex(fs, fieldId) + 1]

\* currentField.conditionalNext[answerKey]; "" stands for undefined
lookupRule(rules, answerKey) ==
    IF answerKey \in DOMAIN rules THEN rules[answerKey] ELSE ""

\* lines 938-948
answerKeyOf(currentField, fieldValue) ==
    IF currentField.type \in {"radio", "select"} THEN toStringOrEmpty(fieldValue)
    ELSE IF currentField.type = "checkbox"
         THEN (IF fieldValue.t = "array" THEN join(fieldValue.a) ELSE "")
    ELSE toStringOrEmpty(fieldValue)

\* "" stands for null
\* a resolution that takes the target of a rule without looking it up
evaluateConditionalNext_trustsTarget(currentField, fieldValue, fs) ==
    IF ~currentField.hasConditionalNext THEN ""
    ELSE LET nextFieldId ==
                 lookupRule(currentField.conditionalNext,
                            answerKeyOf(currentField, fieldValue))
         IN IF nextFieldId # ""
            THEN nextFieldId
            ELSE IF currentField.defaultNext # ""
                    /\ findFieldById(fs, currentField.defaultNext) # undefinedField
                 THEN currentField.defaultNext
                 ELSE ""

evaluateConditionalNext(currentField, fieldValue, fs) ==
    IF ~currentField.hasConditionalNext THEN ""
    ELSE LET nextFieldId ==
                 lookupRule(currentField.conditionalNext,
                            answerKeyOf(currentField, fieldValue))
         IN IF nextFieldId # "" /\ findFieldById(fs, nextFieldId) # undefinedField
            THEN nextFieldId
            ELSE IF currentField.defaultNext # ""
                    /\ findFieldById(fs, currentField.defaultNext) # undefinedField
                 THEN currentField.defaultNext
                 ELSE ""

\* a resolution that follows defaultNext whenever no rule decided
getNextFieldId_followsDefault(currentField, fieldValue, fs) ==
    LET conditionalNext == evaluateConditionalNext(currentField, fieldValue, fs)
        currentIndex == getFieldIndex(fs, currentField.id)
    IN IF conditionalNext # "" THEN conditionalNext
       ELSE IF findFieldById(fs, currentField.defaultNext) # undefinedField
            THEN currentField.defaultNext
       ELSE IF currentIndex >= 0 /\ currentIndex < Len(fs) - 1
            THEN fs[currentIndex + 2].id
            ELSE ""

\* lines 987-1012
getNextFieldId(currentField, fieldValue, fs) ==
    LET conditionalNext == evaluateConditionalNext(currentField, fieldValue, fs)
        currentIndex == getFieldIndex(fs, currentField.id)
    IN IF conditionalNext # "" THEN conditionalNext
       ELSE IF currentIndex >= 0 /\ currentIndex < Len(fs) - 1
            THEN fs[currentIndex + 2].id
            ELSE ""

(***************************************************************************)
(* The navigation state of useFormLogic and its handlers, as functions of  *)
(* the state record.                                                       *)
(***************************************************************************)
Nav == [currentFieldId |-> currentFieldId,
        navigationHistory |-> navigationHistory,
        formData |-> formData,
        error |-> error]

currentFieldOf(s) == findFieldById(fields, s.currentFieldId)

\* the value validation and branching work on, lines 1342-1345 and 1395-1398
effectiveValue(s, overrideValue) ==
    IF overrideValue # Undefined THEN overrideValue
    ELSE s.formData[currentFieldOf(s).id]

\* a validation that forgets the empty selection of a checkbox page
isValidValue_acceptsEmptyArray(value) ==
    /\ value # Undefined
    /\ value # Str("")

\* lines 1346-1349
isValidValue(value) ==
    /\ value # Undefined
    /\ value # Str("")
    /\ (value.t # "array" \/ Len(value.a) > 0)

validateCurrentField(s, overrideValue) ==
    IF currentFieldOf(s) # undefinedField /\ currentFieldOf(s).required
    THEN isValidValue(effectiveValue(s, overrideValue))
    ELSE TRUE

\* an input handler that validates a required field while it is typed in
handleInputChange_validates(s, fieldId, value) ==
    IF findFieldById(fields, fieldId).required /\ ~isValidValue(value)
    THEN [s EXCEPT !.error = TRUE]
    ELSE [s EXCEPT !.formData = [s.formData EXCEPT ![fieldId] = value]]

\* lines 1247-1282
handleInputChange(s, fieldId, value) ==
    [s EXCEPT !.formData = [s.formData EXCEPT ![fieldId] = value]]

\* Array.prototype.filter((v) => v !== option)
RECURSIVE without(_, _)
without(a, option) ==
    IF a = << >> THEN << >>
    ELSE IF a[1] = option THEN without(Tail(a), option)
    ELSE <<a[1]>> \o without(Tail(a), option)

handleCheckboxToggle(s, fieldId, option) ==
    LET currentValues == IF s.formData[fieldId].t = "array"
                         THEN s.formData[fieldId].a ELSE << >>
        newValues == IF \E i \in 1..Len(currentValues) : currentValues[i] = option
                     THEN without(currentValues, option)
                     ELSE Append(currentValues, option)
    IN [s EXCEPT !.formData = [s.formData EXCEPT ![fieldId] = Arr(newValues)]]

\* an advance that leaves the error flag as it is
handleNext_keepsError(s, overrideValue) ==
    IF currentFieldOf(s) = undefinedField THEN s
    ELSE IF ~validateCurrentField(s, overrideValue) THEN [s EXCEPT !.error = TRUE]
    ELSE LET nextFieldId == getNextFieldId(currentFieldOf(s),
                                           effectiveValue(s, overrideValue), fields)
         IN IF nextFieldId # ""
            THEN [s EXCEPT !.currentFieldId = nextFieldId,
                           !.navigationHistory = Append(s.navigationHistory, nextFieldId)]
            ELSE s

\* an advance that forgets to append to the history
handleNext_skipsHistory(s, overrideValue) ==
    IF currentFieldOf(s) = undefinedField THEN s
    ELSE IF ~validateCurrentField(s, overrideValue) THEN [s EXCEPT !.error = TRUE]
    ELSE LET nextFieldId == getNextFieldId(currentFieldOf(s),
                                           effectiveValue(s, overrideValue), fields)
         IN IF nextFieldId # ""
            THEN [s EXCEPT !.error = FALSE,
                           !.currentFieldId = nextFieldId]
            ELSE s

\* an advance that stores the value it was handed
handleNext_storesOverride(s, overrideValue) ==
    LET t == IF overrideValue = Undefined THEN s
             ELSE [s EXCEPT !.formData[s.currentFieldId] = overrideValue]
    IN IF currentFieldOf(s) = undefinedField THEN s
       ELSE IF ~validateCurrentField(s, overrideValue) THEN [t EXCEPT !.error = TRUE]
       ELSE LET nextFieldId == getNextFieldId(currentFieldOf(s),
                                              effectiveValue(s, overrideValue), fields)
            IN IF nextFieldId # ""
               THEN [t EXCEPT !.error = FALSE,
                              !.currentFieldId = nextFieldId,
                              !.navigationHistory = Append(s.navigationHistory, nextFieldId)]
               ELSE t

\* an advance that starts over at the end of the form
handleNext_wrapsAround(s, overrideValue) ==
    IF currentFieldOf(s) = undefinedField THEN s
    ELSE IF ~validateCurrentField(s, overrideValue) THEN [s EXCEPT !.error = TRUE]
    ELSE LET nextFieldId == getNextFieldId(currentFieldOf(s),
                                           effectiveValue(s, overrideValue), fields)
             target == IF nextFieldId # "" THEN nextFieldId ELSE fields[1].id
         IN [s EXCEPT !.error = FALSE,
                      !.currentFieldId = target,
                      !.navigationHistory = Append(s.navigationHistory, target)]

\* lines 1365-1444
handleNext(s, overrideValue) ==
    IF currentFieldOf(s) = undefinedField THEN s
    ELSE IF ~validateCurrentField(s, overrideValue) THEN [s EXCEPT !.error = TRUE]
    ELSE LET nextFieldId == getNextFieldId(currentFieldOf(s),
                                           effectiveValue(s, overrideValue), fields)
         IN IF nextFieldId # ""
            THEN [s EXCEPT !.error = FALSE,
                           !.currentFieldId = nextFieldId,
                           !.navigationHistory = Append(s.navigationHistory, nextFieldId)]
            ELSE s

\* a back navigation that pops the history but forgets setCurrentFieldId
handlePrevious_keepsCurrent(s) ==
    IF Len(s.navigationHistory) > 1
    THEN [s EXCEPT !.error = FALSE,
                   !.navigationHistory = SubSeq(s.navigationHistory, 1,
                                                Len(s.navigationHistory) - 1)]
    ELSE [s EXCEPT !.error = FALSE]

\* a back navigation that pops whenever the history has an entry
handlePrevious_popsLast(s) ==
    IF Len(s.navigationHistory) > 0
    THEN LET newHistory == SubSeq(s.navigationHistory, 1, Len(s.navigationHistory) - 1)
         IN [s EXCEPT !.error = FALSE,
                      !.navigationHistory = newHistory,
                      !.currentFieldId = IF newHistory = << >> THEN ""
                                         ELSE newHistory[Len(newHistory)]]
    ELSE [s EXCEPT !.error = FALSE]

\* a back navigation that resets the error flag only when it pops
handlePrevious_noOpAtStart(s) ==
    IF Len(s.navigationHistory) > 1
    THEN LET newHistory == SubSeq(s.navigationHistory, 1, Len(s.navigationHistory) - 1)
         IN [s EXCEPT !.error = FALSE,
                      !.navigationHistory = newHistory,
                      !.currentFieldId = newHistory[Len(newHistory)]]
    ELSE s

\* a back navigation that leaves the error flag alone
handlePrevious_keepsError(s) ==
    IF Len(s.navigationHistory) > 1
    THEN LET newHistory == SubSeq(s.navigationHistory, 1, Len(s.navigationHistory) - 1)
         IN [s EXCEPT !.navigationHistory = newHistory,
                      !.currentFieldId = newHistory[Len(newHistory)]]
    ELSE s

handlePrevious(s) ==
    IF Len(s.navigationHistory) > 1
    THEN LET newHistory == SubSeq(s.navigationHistory, 1, Len(s.navigationHistory) - 1)
         IN [s EXCEPT !.error = FALSE,
                      !.navigationHistory = newHistory,
                      !.currentFieldId = newHistory[Len(newHistory)]]
    ELSE [s EXCEPT !.error = FALSE]

\* a last-step test that does not look at the stored answer
isLastStep_ignoresAnswer ==
    IF currentFieldOf(Nav) = undefinedField THEN TRUE
    ELSE getNextFieldId(currentFieldOf(Nav), Undefined, fields) = ""

\* lines 1655-1666
isLastStep ==
    IF currentFieldOf(Nav) = undefinedField THEN TRUE
    ELSE getNextFieldId(currentFieldOf(Nav), formData[currentFieldId], fields) = ""

(***************************************************************************)
(* Submission actions and MultiActionSubmissionService, lines 178-703.     *)
(***************************************************************************)
\* an optional property that the author left out (onError?, line 215)
unset == "undefined"

SubmissionAction(enabled, order, condition, onSuccess, onError, retryAttempts) ==
    [enabled |-> enabled, order |-> order, condition |-> condition,
     onSuccess |-> onSuccess, onError |-> onError, retryAttempts |-> retryAttempts]

\* condition expressions over formData that an author can configure
Conditions == {"", "formData.q1 === 'Yes'"}

ActionShapes ==
    { SubmissionAction(en, ord, c, os, oe, ra) :
        en \in BOOLEAN, ord \in {1, 2}, c \in Conditions,
        os \in {"continue", "stop"}, oe \in {"continue", "stop", "retry"},
        ra \in {1, MaxRetry} }

\* the configured lists: one action, or two
ActionLists == { <<a>> : a \in ActionShapes } \cup { <<a, b>> : a, b \in ActionShapes }

\* the expressions above, a blank one, one that reads a property of the
\* answer and so throws a TypeError when the answer is absent, and one that
\* does not parse
AllConditions ==
    Conditions \cup {"   ", "formData.q1.includes('Yes')", "formData.q1 ==="}

\* String.prototype.trim on the expressions of AllConditions
trim(condition) == IF condition = "   " THEN "" ELSE condition

\* value.includes('Yes') for an answer that is a string or an array
includesYes(value) ==
    IF value.t = "array" THEN \E i \in 1..Len(value.a) : value.a[i] = "Yes"
    ELSE value.s = "Yes"

\* an evaluation in which an expression that throws gates the action off
evaluateCondition_failsClosed(condition, data) ==
    IF condition = "" \/ trim(condition) = "" THEN TRUE
    ELSE IF condition = "formData.q1 === 'Yes'" THEN data["q1"] = Str("Yes")
    ELSE IF condition = "formData.q1.includes('Yes')"
         THEN (IF data["q1"] = Undefined THEN FALSE ELSE includesYes(data["q1"]))
    ELSE FALSE

\* lines 610-625: "" stands for an absent or empty expression; new Function
\* throws a SyntaxError on an expression that does not parse, the call a
\* TypeError on a property of undefined, and the catch returns true
evaluateCondition(condition, data) ==
    IF condition = "" \/ trim(condition) = "" THEN TRUE
    ELSE IF condition = "formData.q1 === 'Yes'" THEN data["q1"] = Str("Yes")
    ELSE IF condition = "formData.q1.includes('Yes')"
         THEN (IF data["q1"] = Undefined THEN TRUE ELSE includesYes(data["q1"]))
    ELSE TRUE

\* insertion of x after every element that does not compare greater
RECURSIVE insertSorted(_, _, _)
insertSorted(xs, x, actions) ==
    IF xs = << >> THEN <<x>>
    ELSE IF actions[xs[1]].order - actions[x].order > 0 THEN <<x>> \o xs
    ELSE <<xs[1]>> \o insertSorted(Tail(xs), x, actions)

\* Array.prototype.sort((a, b) => a.order - b.order): a stable sort
RECURSIVE sortByOrder(_, _)
sortByOrder(xs, actions) ==
    IF xs = << >> THEN << >>
    ELSE insertSorted(sortByOrder(SubSeq(xs, 1, Len(xs) - 1), actions),
                      xs[Len(xs)], actions)

\* a selection that forgets the enabled flag
enabledActionsOf_ignoresEnabled(actions, data) ==
    LET passes(i) == evaluateCondition(actions[i].condition, data)
    IN SelectSeq(sortByOrder([i \in 1..Len(actions) |-> i], actions), passes)

\* a selection that leaves the enabled actions in declaration order
enabledActionsOf_skipsSort(actions, data) ==
    LET isEnabled(i) == actions[i].enabled
        passes(i) == evaluateCondition(actions[i].condition, data)
    IN SelectSeq(SelectSeq([i \in 1..Len(actions) |-> i], isEnabled), passes)

\* lines 275-280: the actions ready for execution, as positions of the
\* configured list
enabledActionsOf(actions, data) ==
    LET isEnabled(i) == actions[i].enabled
        passes(i) == evaluateCondition(actions[i].condition, data)
    IN SelectSeq(sortByOrder(SelectSeq([i \in 1..Len(actions) |-> i], isEnabled),
                             actions),
                 passes)

noSummary == [successful |-> 0, failed |-> 0, skipped |-> 0]

noFormData == [f \in FieldIds |-> Undefined]

\* no submission under way
idleRun ==
    [pc |-> "idle", formData |-> noFormData, navigationPath |-> << >>,
     invoked |-> FALSE, enabledActions |-> << >>, index |-> 0, attempt |-> 0, pending |-> {},
     settled |-> << >>, results |-> << >>, summary |-> noSummary,
     success |-> FALSE, dispatched |-> << >>, outcomes |-> << >>, delays |-> << >>,
     events |-> << >>, payloads |-> << >>]

\* useState(null), line 1202
nullResult == [success |-> FALSE, results |-> << >>, summary |-> noSummary]

\* a verdict that only looks for failures
overallSuccess_noFailure(summary) == summary.failed = 0

\* lines 367-378
overallSuccess(summary) == summary.failed = 0 /\ summary.successful > 0

finishRun(r) ==
    [r EXCEPT !.pc = "done", !.pending = {}, !.success = overallSuccess(r.summary)]

\* lines 262-270: what every executeAction call of the run is handed
submissionData(r) == [formData |-> r.formData, navigationPath |-> r.navigationPath]

\* executeAction is invoked for the action at position pos of enabledActions
dispatch(r, pos, attempt) ==
    [r EXCEPT !.pc = "dispatch", !.index = pos, !.attempt = attempt,
              !.pending = {pos},
              !.dispatched = Append(@, r.enabledActions[pos]),
              !.payloads = Append(@, submissionData(r))]

\* the for loop of lines 317-364 moves on after the action at r.index
nextIteration(r, stop) ==
    IF stop \/ r.index = Len(r.enabledActions) THEN finishRun(r)
    ELSE dispatch(r, r.index + 1, 1)

\* a run that starts every action at once in either mode
startRun_allAtOnce(actions, parallel, data, path) ==
    LET r0 == [idleRun EXCEPT !.formData = data, !.navigationPath = path,
                              !.invoked = TRUE,
                              !.enabledActions = enabledActionsOf(actions, data)]
        n == Len(r0.enabledActions)
    IN IF n = 0 THEN finishRun(r0)
       ELSE [r0 EXCEPT !.pc = "parallel", !.pending = 1..n,
                       !.settled = [p \in 1..n |-> "pending"],
                       !.dispatched = r0.enabledActions,
                       !.payloads = [p \in 1..n |-> submissionData(r0)]]

\* lines 262-365 up to the first suspension
startRun(actions, parallel, data, path) ==
    LET r0 == [idleRun EXCEPT !.formData = data, !.navigationPath = path,
                              !.invoked = TRUE,
                              !.enabledActions = enabledActionsOf(actions, data)]
        n == Len(r0.enabledActions)
    IN IF n = 0 THEN finishRun(r0)
       ELSE IF parallel
            THEN [r0 EXCEPT !.pc = "parallel", !.pending = 1..n,
                            !.settled = [p \in 1..n |-> "pending"],
                            !.dispatched = r0.enabledActions,
                            !.payloads = [p \in 1..n |-> submissionData(r0)]]
            ELSE dispatch(r0, 1, 1)

\* what a failing dispatcher throws: an Error with a message (lines 440,
\* 465, 495, 516, 529, 547, 560, 589) or the TypeError of fetch
dispatchError == [isError |-> TRUE, message |-> "Webhook failed"]

\* lines 342-343
errorMessage(e) == IF e.isError THEN e.message ELSE "Unknown error"

\* the per-action results; "" stands for no error property
successResult(a) == [action |-> a, success |-> TRUE, error |-> ""]

failureResult(a, message) == [action |-> a, success |-> FALSE, error |-> message]

\* an aggregation that counts every settled action as a success
collectParallel_allSuccessful(r) ==
    LET n == Len(r.enabledActions)
        res == [p \in 1..n |-> IF r.settled[p] = "ok"
                                THEN successResult(r.enabledActions[p])
                                ELSE failureResult(r.enabledActions[p],
                                                   dispatchError.message)]
    IN finishRun([r EXCEPT !.results = res,
                           !.summary = [successful |-> n, failed |-> 0, skipped |-> 0]])

\* an aggregation that stops at the first action whose stop directive applies
collectParallel_honoursStop(r) ==
    LET n == Len(r.enabledActions)
        res == [p \in 1..n |-> IF r.settled[p] = "ok"
                                THEN successResult(r.enabledActions[p])
                                ELSE failureResult(r.enabledActions[p],
                                                   dispatchError.message)]
        stops(p) == LET action == submissionActions[r.enabledActions[p]]
                    IN \/ res[p].success /\ action.onSuccess = "stop"
                       \/ ~res[p].success /\ action.onError = "stop"
        last == IF \E p \in 1..n : stops(p)
                THEN CHOOSE p \in 1..n : stops(p) /\ \A q \in 1..(p - 1) : ~stops(q)
                ELSE n
        kept == SubSeq(res, 1, last)
    IN finishRun([r EXCEPT !.results = kept,
                           !.summary = [successful |-> Cardinality({p \in 1..last : kept[p].success}),
                                        failed |-> Cardinality({p \in 1..last : ~kept[p].success}),
                                        skipped |-> 0]])

\* an aggregation that lists the results in the order the dispatches settled
collectParallel_completionOrder(r) ==
    LET n == Len(r.enabledActions)
        res == [k \in 1..n |-> IF r.outcomes[k].ok
                                THEN successResult(r.outcomes[k].action)
                                ELSE failureResult(r.outcomes[k].action,
                                                   dispatchError.message)]
    IN finishRun([r EXCEPT !.results = res,
                           !.summary = [successful |-> Cardinality({p \in 1..n : res[p].success}),
                                        failed |-> Cardinality({p \in 1..n : ~res[p].success}),
                                        skipped |-> 0]])

\* Promise.all resolved: lines 309-313
collectParallel(r) ==
    LET n == Len(r.enabledActions)
        res == [p \in 1..n |-> IF r.settled[p] = "ok"
                                THEN successResult(r.enabledActions[p])
                                ELSE failureResult(r.enabledActions[p],
                                                   dispatchError.message)]
    IN finishRun([r EXCEPT !.results = res,
                           !.summary = [successful |-> Cardinality({p \in 1..n : res[p].success}),
                                        failed |-> Cardinality({p \in 1..n : ~res[p].success}),
                                        skipped |-> 0]])

\* a loop that never looks at onSuccess
stopOnSuccess_never(action) == FALSE

\* line 336
stopOnSuccess(action) == action.onSuccess = "stop"

\* a loop that also ends when the retries of an action are used up
stopOnError_orRetry(action) == action.onError \in {"stop", "retry"}

\* a loop that never looks at onError
stopOnError_never(action) == FALSE

\* line 357
stopOnError(action) == action.onError = "stop"

\* action.retryAttempts || 1, line 389
maxAttempts(action) == IF action.retryAttempts = 0 THEN 1 ELSE action.retryAttempts

\* a retry test that is off by one
shouldRetry_oneMore(action, attempt) ==
    attempt <= maxAttempts(action) /\ action.onError = "retry"

\* line 391
shouldRetry(action, attempt) ==
    attempt < maxAttempts(action) /\ action.onError = "retry"

\* a backoff that starts at one second
backoffDelay_fromOne(attempt) == 2 ^ (attempt - 1)

\* Math.pow(2, attempt) * 1000 ms, line 398, in seconds
backoffDelay(attempt) == 2 ^ attempt

\* a loop that loses the result of an action that failed for good
settle_dropsFailure(r, actions, pos, ok) ==
    LET action == actions[r.enabledActions[pos]]
        logged == [r EXCEPT !.outcomes = Append(@, [action |-> r.enabledActions[pos], ok |-> ok])]
    IN IF r.pc = "parallel"
       THEN LET s == [logged EXCEPT !.pending = @ \ {pos},
                                    !.settled[pos] = IF ok THEN "ok" ELSE "fail"]
            IN IF s.pending = {} THEN collectParallel(s) ELSE s
       ELSE IF ok
            THEN nextIteration(
                     [logged EXCEPT !.results = Append(@, successResult(r.enabledActions[pos])),
                                    !.summary.successful = @ + 1],
                     stopOnSuccess(action))
            ELSE \* executeActionWithRetry, lines 388-403
                 IF shouldRetry(action, r.attempt)
                 THEN [logged EXCEPT !.pc = "backoff", !.pending = {},
                                     !.delays = Append(@, backoffDelay(r.attempt))]
                 ELSE nextIteration(logged, stopOnError(action))

\* the dispatch of the action at position pos settled with success (ok) or
\* with an error
settle(r, actions, pos, ok) ==
    LET action == actions[r.enabledActions[pos]]
        logged == [r EXCEPT !.outcomes = Append(@, [action |-> r.enabledActions[pos], ok |-> ok])]
    IN IF r.pc = "parallel"
       THEN LET s == [logged EXCEPT !.pending = @ \ {pos},
                                    !.settled[pos] = IF ok THEN "ok" ELSE "fail"]
            IN IF s.pending = {} THEN collectParallel(s) ELSE s
       ELSE IF ok
            THEN nextIteration(
                     [logged EXCEPT !.results = Append(@, successResult(r.enabledActions[pos])),
                                    !.summary.successful = @ + 1],
                     stopOnSuccess(action))
            ELSE \* executeActionWithRetry, lines 388-403
                 IF shouldRetry(action, r.attempt)
                 THEN [logged EXCEPT !.pc = "backoff", !.pending = {},
                                     !.delays = Append(@, backoffDelay(r.attempt))]
                 ELSE nextIteration(
                          [logged EXCEPT !.results = Append(@, failureResult(r.enabledActions[pos], errorMessage(dispatchError))),
                                         !.summary.failed = @ + 1],
                          stopOnError(action))

\* a retry that reads the answers and the history of the session again
retry_readsSession(r) ==
    dispatch([r EXCEPT !.formData = formData, !.navigationPath = navigationHistory],
             r.index, r.attempt + 1)

\* the backoff timer of lines 396-399 fired
retry(r) == dispatch(r, r.index, r.attempt + 1)

\* handleSubmit pushes the outcome of the run that returned to
\* window.dataLayer: lines 1587-1595 and 1630-1640
reportOutcome(r) ==
    IF r.pc = "done"
    THEN [r EXCEPT !.events = Append(@, IF r.success THEN "form_submission_success"
                                        ELSE "form_submission_error")]
    ELSE r

\* an effect that resets the current field and forgets the history
selfHeal_keepsHistory(s, fs) ==
    IF findFieldById(fs, s.currentFieldId) = undefinedField /\ Len(fs) > 0
    THEN [s EXCEPT !.currentFieldId = fs[1].id]
    ELSE s

\* the effect of lines 1219-1227: a current field that the list fs does not
\* hold resets the session to the first field of fs
selfHeal(s, fs) ==
    IF findFieldById(fs, s.currentFieldId) = undefinedField /\ Len(fs) > 0
    THEN [s EXCEPT !.currentFieldId = fs[1].id,
                   !.navigationHistory = <<fs[1].id>>]
    ELSE s

(***************************************************************************)
(* The refs of useFormLogic behind the auto-advance, lines 1205-1213, and  *)
(* the timers that triggerAutoAdvance has set.  A timestamp is kept as the *)
(* answer to the one question the code asks of it: lastUserInteractionRef  *)
(* as the field and whether less than 100 ms have passed, and              *)
(* backNavigationTimeRef as whether it is set and less than 500 ms old.    *)
(* navigationTypeRef is written and logged but never tested, and is left   *)
(* out.  triggered and lastBurst record the values handed to               *)
(* triggerAutoAdvance since a timer last fired, and how many there were    *)
(* when it fired.                                                          *)
(***************************************************************************)
initialRefs ==
    [timers |-> << >>, timeoutRef |-> FALSE, lastInteraction |-> "",
     interactionRecent |-> FALSE, backNavRecent |-> FALSE,
     triggered |-> << >>, lastBurst |-> 0]

\* lines 1262-1268 and 1326-1332, isUserInteraction = true
userInteraction(a, fieldId) ==
    [a EXCEPT !.lastInteraction = fieldId, !.interactionRecent = TRUE,
              !.backNavRecent = FALSE]

\* lines 1436-1437
movedForward(a) == [a EXCEPT !.backNavRecent = FALSE]

\* lines 1449-1450
movedBack(a) == [a EXCEPT !.backNavRecent = TRUE]

\* clearTimeout(autoAdvanceTimeoutRef.current), lines 1724-1726 and
\* 1673-1675: the ref holds the timer set last
clearAutoAdvanceTimeout(a) ==
    IF a.timeoutRef /\ a.timers # << >>
    THEN [a EXCEPT !.timers = SubSeq(@, 1, Len(@) - 1)]
    ELSE a

\* a trigger that sets its timer without clearing the one before
triggerAutoAdvance_keepsTimer(a, fieldId, value, field) ==
    [a EXCEPT !.timers = Append(@, [fieldId |-> fieldId, value |-> value,
                                    hideNextButton |-> field.hideNextButton]),
              !.timeoutRef = TRUE,
              !.triggered = Append(@, value)]

\* lines 1719-1740 up to the setTimeout
triggerAutoAdvance(a, fieldId, value, field) ==
    [clearAutoAdvanceTimeout(a) EXCEPT
         !.timers = Append(@, [fieldId |-> fieldId, value |-> value,
                               hideNextButton |-> field.hideNextButton]),
         !.timeoutRef = TRUE,
         !.triggered = Append(@, value)]

\* lines 1680-1716
shouldAllowAutoAdvance(a, fieldId) ==
    /\ ~a.backNavRecent
    /\ a.lastInteraction = fieldId
    /\ a.interactionRecent

(***************************************************************************)
(* Initial states: the hook state after the first render, lines 1192-1202. *)
(***************************************************************************)
InitHook ==
    /\ currentFieldId = fields[1].id
    /\ navigationHistory = <<fields[1].id>>
    /\ formData = noFormData
    /\ submitted = FALSE
    /\ error = FALSE
    /\ isSubmitting = FALSE
    /\ submissionResult = nullResult
    /\ usedAnswers = << >>
    /\ run = idleRun
    /\ mounted = TRUE
    /\ autoAdvance = initialRefs

\* any field graph, no submission action configured
InitNav ==
    /\ fields \in Graphs
    /\ submissionActions = << >>
    /\ executeInParallel = FALSE
    /\ InitHook

\* a form of a single optional question, any list of submission actions
InitRun ==
    /\ fields = <<FormPage("q1", "radio", FALSE, FALSE, NoRules, "")>>
    /\ submissionActions \in ActionLists
    /\ executeInParallel \in BOOLEAN
    /\ InitHook

(***************************************************************************)
(* Actions.  The form is replaced by the success view once submitted       *)
(* (line 3077), so no handler is reachable from then on.                   *)
(***************************************************************************)
\* the state setters of a handler, followed by the effects of the render
SetNav(s) ==
    /\ currentFieldId' = selfHeal(s, fields).currentFieldId
    /\ navigationHistory' = selfHeal(s, fields).navigationHistory
    /\ formData' = s.formData
    /\ error' = s.error

\* a text input or a radio option of the page on display changes
HandleInputChange ==
    /\ mounted
    /\ ~submitted
    /\ currentFieldOf(Nav).type \in {"text", "radio"}
    /\ \E v \in InputValues(currentFieldOf(Nav).type) :
          SetNav(handleInputChange(Nav, currentFieldId, v))
    /\ autoAdvance' = userInteraction(autoAdvance, currentFieldId)
    /\ UNCHANGED <<props, mounted, submitted, isSubmitting, submissionResult, usedAnswers, run>>

\* a checkbox option of the page on display is toggled
HandleCheckboxToggle ==
    /\ mounted
    /\ ~submitted
    /\ currentFieldOf(Nav).type = "checkbox"
    /\ \E option \in Options :
          SetNav(handleCheckboxToggle(Nav, currentFieldId, option))
    /\ autoAdvance' = userInteraction(autoAdvance, currentFieldId)
    /\ UNCHANGED <<props, mounted, submitted, isSubmitting, submissionResult, usedAnswers, run>>

\* onNext(overrideValue): handleNext and what it leaves in the refs
onNext(overrideValue) ==
    LET s == handleNext(Nav, overrideValue)
        advanced == Len(s.navigationHistory) > Len(navigationHistory)
    IN /\ Len(s.navigationHistory) <= MaxHistory
       /\ SetNav(s)
       /\ usedAnswers' = IF advanced
                         THEN Append(usedAnswers, effectiveValue(Nav, overrideValue))
                         ELSE usedAnswers
       /\ autoAdvance' = IF advanced THEN movedForward(autoAdvance) ELSE autoAdvance

\* onNext is called without a value by the next button (disabled while
\* submitting, line 2857), or by an auto-advance with the option clicked on
\* a radio page or the selection left on a checkbox page
HandleNext ==
    /\ mounted
    /\ ~submitted
    /\ \E overrideValue \in OverrideValues :
          /\ overrideValue = Undefined => ~isSubmitting
          /\ overrideValue.t = "string" => currentFieldOf(Nav).type = "radio"
          /\ overrideValue.t = "array" => currentFieldOf(Nav).type = "checkbox"
          /\ onNext(overrideValue)
    /\ UNCHANGED <<props, mounted, submitted, isSubmitting, submissionResult, run>>

\* the back button
HandlePrevious ==
    /\ mounted
    /\ ~submitted
    /\ SetNav(handlePrevious(Nav))
    /\ usedAnswers' = IF selfHeal(handlePrevious(Nav), fields) # handlePrevious(Nav)
                      THEN << >>
                      ELSE IF Len(navigationHistory) > 1
                      THEN SubSeq(usedAnswers, 1, Len(usedAnswers) - 1)
                      ELSE usedAnswers
    /\ autoAdvance' = movedBack(autoAdvance)
    /\ UNCHANGED <<props, mounted, submitted, isSubmitting, submissionResult, run>>

\* handleSubmit pushes the form_submission event with the questions and
\* answers to window.dataLayer before it submits: lines 1506-1565
announceSubmission(r) == [r EXCEPT !.events = <<"form_submission">> \o @]

\* a handleSubmit without the finally block of lines 1643-1645
Completed_staysSubmitting(r) ==
    IF mounted
    THEN IF r.success
         THEN /\ submissionResult' = [success |-> TRUE, results |-> r.results,
                                      summary |-> r.summary]
              /\ submitted' = TRUE
              /\ isSubmitting' = FALSE
              /\ error' = IF isSubmitting THEN error ELSE FALSE
         ELSE /\ error' = TRUE
              /\ isSubmitting' = isSubmitting
              /\ UNCHANGED <<submitted, submissionResult>>
    ELSE UNCHANGED <<submitted, error, isSubmitting, submissionResult>>

\* handleSubmit after executeActions returned r: lines 1587-1602, 1627-1645
Completed(r) ==
    IF mounted
    THEN /\ isSubmitting' = FALSE
         /\ IF r.success
            THEN /\ submissionResult' = [success |-> TRUE, results |-> r.results,
                                         summary |-> r.summary]
                 /\ submitted' = TRUE
                 /\ error' = IF isSubmitting THEN error ELSE FALSE
            ELSE /\ error' = TRUE
                 /\ UNCHANGED <<submitted, submissionResult>>
    ELSE \* the state setters of a component that is gone do nothing
         UNCHANGED <<submitted, error, isSubmitting, submissionResult>>

\* a handleSubmit without the validation of lines 1495-1499
HandleSubmit_skipsValidation ==
    /\ mounted
    /\ ~submitted
    /\ ~isSubmitting
    /\ isLastStep
    /\ IF Len(submissionActions) > 0
       THEN LET r == announceSubmission(
                         reportOutcome(startRun(submissionActions, executeInParallel,
                                                formData, navigationHistory)))
            IN /\ run' = r
               /\ IF r.pc = "done" THEN Completed(r)
                  ELSE /\ isSubmitting' = TRUE
                       /\ error' = FALSE
                       /\ UNCHANGED <<submitted, submissionResult>>
       ELSE /\ run' = [idleRun EXCEPT !.pc = "fallback", !.formData = formData,
                                      !.navigationPath = navigationHistory,
                                      !.events = <<"form_submission", "form_submission_success">>]
            /\ isSubmitting' = TRUE
            /\ error' = FALSE
            /\ UNCHANGED <<submitted, submissionResult>>
    /\ UNCHANGED <<props, mounted, autoAdvance, currentFieldId, navigationHistory, formData, usedAnswers>>

\* a submit button that stays enabled while the form is submitting
HandleSubmit_whileSubmitting ==
    /\ mounted
    /\ ~submitted
    /\ isLastStep
    /\ IF ~validateCurrentField(Nav, Undefined)
       THEN /\ error' = TRUE
            /\ UNCHANGED <<submitted, isSubmitting, submissionResult, run>>
       ELSE IF Len(submissionActions) > 0
       THEN LET r == announceSubmission(
                         reportOutcome(startRun(submissionActions, executeInParallel,
                                                formData, navigationHistory)))
            IN /\ run' = r
               /\ IF r.pc = "done" THEN Completed(r)
                  ELSE /\ isSubmitting' = TRUE
                       /\ error' = FALSE
                       /\ UNCHANGED <<submitted, submissionResult>>
       ELSE /\ run' = [idleRun EXCEPT !.pc = "fallback", !.formData = formData,
                                      !.navigationPath = navigationHistory,
                                      !.events = <<"form_submission", "form_submission_success">>]
            /\ isSubmitting' = TRUE
            /\ error' = FALSE
            /\ UNCHANGED <<submitted, submissionResult>>
    /\ UNCHANGED <<props, mounted, autoAdvance, currentFieldId, navigationHistory, formData, usedAnswers>>

\* the submit button (shown on the last step, disabled while submitting,
\* lines 2856-2857) calls handleSubmit, which runs up to its first suspension
HandleSubmit ==
    /\ mounted
    /\ ~submitted
    /\ ~isSubmitting
    /\ isLastStep
    /\ IF ~validateCurrentField(Nav, Undefined)
       THEN /\ error' = TRUE
            /\ UNCHANGED <<submitted, isSubmitting, submissionResult, run>>
       ELSE IF Len(submissionActions) > 0
       THEN LET r == announceSubmission(
                         reportOutcome(startRun(submissionActions, executeInParallel,
                                                formData, navigationHistory)))
            IN /\ run' = r
               /\ IF r.pc = "done" THEN Completed(r)
                  ELSE /\ isSubmitting' = TRUE
                       /\ error' = FALSE
                       /\ UNCHANGED <<submitted, submissionResult>>
       ELSE /\ run' = [idleRun EXCEPT !.pc = "fallback", !.formData = formData,
                                      !.navigationPath = navigationHistory,
                                      !.events = <<"form_submission", "form_submission_success">>]
            /\ isSubmitting' = TRUE
            /\ error' = FALSE
            /\ UNCHANGED <<submitted, submissionResult>>
    /\ UNCHANGED <<props, mounted, autoAdvance, currentFieldId, navigationHistory, formData, usedAnswers>>

\* the 1000 ms timer of the fallback submission fired, lines 1624-1625, 1644
FallbackTimer ==
    /\ run.pc = "fallback"
    /\ run' = [run EXCEPT !.pc = "fallbackDone"]
    /\ IF mounted
       THEN submitted' = TRUE /\ isSubmitting' = FALSE
       ELSE UNCHANGED <<submitted, isSubmitting>>
    /\ UNCHANGED <<props, mounted, autoAdvance, currentFieldId, navigationHistory, formData, error,
                   submissionResult, usedAnswers>>

Settles(ok) ==
    /\ run.pc \in {"dispatch", "parallel"}
    /\ \E pos \in run.pending :
          LET r == reportOutcome(settle(run, submissionActions, pos, ok))
          IN /\ run' = r
             /\ IF r.pc = "done" THEN Completed(r)
                ELSE UNCHANGED <<submitted, error, isSubmitting, submissionResult>>
    /\ UNCHANGED <<props, mounted, autoAdvance, currentFieldId, navigationHistory, formData, usedAnswers>>

\* a dispatch in flight resolves
DispatchSucceeds == Settles(TRUE)

\* a dispatch in flight rejects
DispatchFails == Settles(FALSE)

\* the backoff timer fired and the action is executed again
BackoffElapsed ==
    /\ run.pc = "backoff"
    /\ run' = retry(run)
    /\ UNCHANGED <<props, mounted, autoAdvance, currentFieldId, navigationHistory, formData, submitted,
                   error, isSubmitting, submissionResult, usedAnswers>>

\* the component is removed from the page; nothing cancels the run in
\* flight, whose fetch calls carry no signal (lines 458-462); the cleanup
\* of lines 1670-1677 clears the auto-advance timer
Unmount ==
    /\ mounted
    /\ mounted' = FALSE
    /\ autoAdvance' = clearAutoAdvanceTimeout(autoAdvance)
    /\ UNCHANGED <<props, currentFieldId, navigationHistory, formData, submitted,
                   error, isSubmitting, submissionResult, usedAnswers, run>>

\* a radio option of the page on display is clicked: the onClick of lines
\* 2302-2318 stores the option and triggers the auto-advance
OptionClicked ==
    /\ mounted
    /\ ~submitted
    /\ currentFieldOf(Nav).type = "radio"
    /\ Len(autoAdvance.triggered) < MaxTriggers
    /\ \E option \in Options :
          /\ SetNav(handleInputChange(Nav, currentFieldId, Str(option)))
          /\ autoAdvance' = triggerAutoAdvance(userInteraction(autoAdvance, currentFieldId),
                                               currentFieldId, Str(option),
                                               currentFieldOf(Nav))
    /\ UNCHANGED <<props, mounted, submitted, isSubmitting, submissionResult, usedAnswers, run>>

\* a checkbox of the page on display is toggled: the onChange of lines
\* 2420-2456 toggles the option and triggers the auto-advance with the
\* selection that results
CheckboxClicked ==
    /\ mounted
    /\ ~submitted
    /\ currentFieldOf(Nav).type = "checkbox"
    /\ Len(autoAdvance.triggered) < MaxTriggers
    /\ \E option \in Options :
          LET s == handleCheckboxToggle(Nav, currentFieldId, option)
          IN /\ SetNav(s)
             /\ autoAdvance' = triggerAutoAdvance(userInteraction(autoAdvance, currentFieldId),
                                                  currentFieldId, s.formData[currentFieldId],
                                                  currentFieldOf(Nav))
    /\ UNCHANGED <<props, mounted, submitted, isSubmitting, submissionResult, usedAnswers, run>>

\* the next button, which a page with hideNextButton does not show (line
\* 3382) and which submits on the last step (line 2856)
NextButton ==
    /\ mounted
    /\ ~submitted
    /\ ~isSubmitting
    /\ ~isLastStep
    /\ ~currentFieldOf(Nav).hideNextButton
    /\ onNext(Undefined)
    /\ UNCHANGED <<props, mounted, submitted, isSubmitting, submissionResult, run>>

\* a timer of triggerAutoAdvance fires, lines 1729-1737: handleNext is the
\* one of the render in which the option was clicked, whose current field
\* is the field of the click
AutoAdvanceTimer ==
    /\ mounted
    /\ \E k \in 1..Len(autoAdvance.timers) :
          LET t == autoAdvance.timers[k]
              fired == [autoAdvance EXCEPT
                           !.timers = SubSeq(@, 1, k - 1) \o SubSeq(@, k + 1, Len(@)),
                           !.timeoutRef = FALSE,
                           !.lastBurst = Len(autoAdvance.triggered),
                           !.triggered = << >>]
              s == handleNext([Nav EXCEPT !.currentFieldId = t.fieldId], t.value)
              advanced == Len(s.navigationHistory) > Len(navigationHistory)
          IN IF t.hideNextButton /\ shouldAllowAutoAdvance(autoAdvance, t.fieldId)
             THEN IF advanced
                  THEN /\ Len(s.navigationHistory) <= MaxHistory
                       /\ SetNav(s)
                       /\ usedAnswers' = Append(usedAnswers, t.value)
                       /\ autoAdvance' = movedForward(fired)
                  ELSE /\ SetNav([Nav EXCEPT !.error = s.error])
                       /\ autoAdvance' = fired
                       /\ UNCHANGED usedAnswers
             ELSE /\ autoAdvance' = fired
                  /\ UNCHANGED <<currentFieldId, navigationHistory, formData, error,
                                 usedAnswers>>
    /\ UNCHANGED <<props, mounted, submitted, isSubmitting, submissionResult, run>>

\* 100 ms have passed since the last user interaction (line 1712)
InteractionAges ==
    /\ autoAdvance.interactionRecent
    /\ autoAdvance' = [autoAdvance EXCEPT !.interactionRecent = FALSE]
    /\ UNCHANGED <<props, mounted, currentFieldId, navigationHistory, formData, submitted,
                   error, isSubmitting, submissionResult, usedAnswers, run>>

\* 500 ms have passed since the back navigation (line 1697), and so more
\* than 100 ms since the interaction before it
BackNavigationAges ==
    /\ autoAdvance.backNavRecent
    /\ autoAdvance' = [autoAdvance EXCEPT !.backNavRecent = FALSE,
                                          !.interactionRecent = FALSE]
    /\ UNCHANGED <<props, mounted, currentFieldId, navigationHistory, formData, submitted,
                   error, isSubmitting, submissionResult, usedAnswers, run>>

\* a plain optional text question
PlainField(id) == FormPage(id, "text", FALSE, FALSE, NoRules, "")

\* the field lists the author of the form moves between
FieldLists ==
    { <<PlainField("q1"), PlainField("q2"), PlainField("q3")>>,
      <<PlainField("q1"), PlainField("q3")>>,
      <<PlainField("q2"), PlainField("q3")>>,
      <<PlainField("q3"), PlainField("q2"), PlainField("q1")>>,
      <<PlainField("q2")>>,
      << >> }

\* the fields prop changes; the render that follows runs the effect of
\* lines 1219-1227
FieldsChange ==
    /\ mounted
    /\ \E fs \in FieldLists :
          /\ fs # fields
          /\ fields' = fs
          /\ currentFieldId' = selfHeal(Nav, fs).currentFieldId
          /\ navigationHistory' = selfHeal(Nav, fs).navigationHistory
          /\ usedAnswers' = IF selfHeal(Nav, fs) # Nav THEN << >> ELSE usedAnswers
    /\ UNCHANGED <<submissionActions, executeInParallel, mounted, autoAdvance, formData,
                   submitted, error, isSubmitting, submissionResult, run>>

NextNav ==
    \/ HandleInputChange
    \/ HandleCheckboxToggle
    \/ HandleNext
    \/ HandlePrevious
    \/ HandleSubmit
    \/ FallbackTimer

NextRun ==
    \/ HandleInputChange
    \/ HandleSubmit
    \/ DispatchSucceeds
    \/ DispatchFails
    \/ BackoffElapsed

\* navigation over any field graph, with the fallback submission
Spec == InitNav /\ [][NextNav]_vars

\* the submission service over any list of actions
SpecRun == InitRun /\ [][NextRun]_vars

\* the same, where every dispatch in flight settles (fetch resolves or
\* rejects) and every backoff timer fires
SpecRunFair ==
    /\ SpecRun
    /\ WF_vars(DispatchSucceeds \/ DispatchFails)
    /\ WF_vars(BackoffElapsed)

\* the actions of a session: always enabled, gated or not, retried once
\* or not at all
SessionActions ==
    { SubmissionAction(TRUE, 1, c, "continue", oe, 2) :
        c \in Conditions, oe \in {"continue", "stop", "retry", unset} }

\* a form of two questions, the second one required, and one action or
\* one action followed by a plain one
InitSession ==
    /\ fields = <<FormPage("q1", "radio", FALSE, FALSE, NoRules, ""),
                  FormPage("q2", "text", TRUE, FALSE, NoRules, "")>>
    /\ submissionActions \in
           { <<a>> : a \in SessionActions }
           \cup { <<a, SubmissionAction(TRUE, 2, "", "continue", "continue", 1)>> :
                      a \in SessionActions }
    /\ executeInParallel \in BOOLEAN
    /\ InitHook

NextSession ==
    \/ HandleInputChange
    \/ HandleNext
    \/ HandlePrevious
    \/ HandleSubmit
    \/ DispatchSucceeds
    \/ DispatchFails
    \/ BackoffElapsed
    \/ Unmount

\* a session that navigates, submits through the service and can be torn
\* down at any time
SpecSession == InitSession /\ [][NextSession]_vars

\* a form of a required checkbox question and a required text question,
\* submitted through the fallback or through one action
InitSubmit ==
    /\ fields = <<FormPage("q1", "checkbox", TRUE, FALSE, NoRules, ""),
                  FormPage("q2", "text", TRUE, FALSE, NoRules, "")>>
    /\ submissionActions \in
           {<< >>} \cup { <<SubmissionAction(TRUE, 1, "", "continue", oe, 2)>> :
                              oe \in {"continue", "retry"} }
    /\ executeInParallel \in BOOLEAN
    /\ InitHook

NextSubmit ==
    \/ HandleInputChange
    \/ HandleCheckboxToggle
    \/ HandleNext
    \/ HandlePrevious
    \/ HandleSubmit
    \/ FallbackTimer
    \/ DispatchSucceeds
    \/ DispatchFails
    \/ BackoffElapsed

\* a session that is used while it submits, where every dispatch in flight
\* settles and every timer fires
SpecSubmit ==
    /\ InitSubmit
    /\ [][NextSubmit]_vars
    /\ WF_vars(DispatchSucceeds \/ DispatchFails)
    /\ WF_vars(BackoffElapsed)
    /\ WF_vars(FallbackTimer)

\* a form of a radio question and a checkbox question, each with or
\* without its next button, and a last radio question
InitAuto ==
    /\ fields \in
           { <<withHideNextButton(FormPage("q1", "radio", TRUE, FALSE, NoRules, ""), h1),
               withHideNextButton(FormPage("q2", "checkbox", TRUE, FALSE, NoRules, ""), h2),
               FormPage("q3", "radio", FALSE, FALSE, NoRules, "")>> :
                 h1, h2 \in BOOLEAN }
    /\ submissionActions = << >>
    /\ executeInParallel = FALSE
    /\ InitHook

NextAuto ==
    \/ OptionClicked
    \/ CheckboxClicked
    \/ NextButton
    \/ HandlePrevious
    \/ AutoAdvanceTimer
    \/ InteractionAges
    \/ BackNavigationAges

\* a form that is filled in by clicks, with the auto-advance and its timer
SpecAuto == InitAuto /\ [][NextAuto]_vars

\* a form whose field list is replaced while it is filled in
InitFields ==
    /\ fields \in FieldLists \ {<< >>}
    /\ submissionActions = << >>
    /\ executeInParallel = FALSE
    /\ InitHook

NextFields ==
    \/ HandleInputChange
    \/ HandleNext
    \/ HandlePrevious
    \/ FieldsChange

SpecFields == InitFields /\ [][NextFields]_vars

\* a form of a single optional question; one or two enabled actions that
\* differ in their condition expression only
InitCond ==
    /\ fields = <<FormPage("q1", "radio", FALSE, FALSE, NoRules, "")>>
    /\ submissionActions \in
           { <<SubmissionAction(TRUE, 1, c, "continue", "continue", 1)>> :
                 c \in AllConditions }
           \cup { <<SubmissionAction(TRUE, 1, c, "continue", "continue", 1),
                    SubmissionAction(TRUE, 2, d, "continue", "continue", 1)>> :
                      c, d \in AllConditions }
    /\ executeInParallel \in BOOLEAN
    /\ InitHook

NextCond ==
    \/ HandleInputChange
    \/ HandleSubmit
    \/ DispatchSucceeds
    \/ DispatchFails

\* the condition filter of the service over every kind of expression
SpecCond == InitCond /\ [][NextCond]_vars

(***************************************************************************)
(* Properties of the navigation (specification Spec).                      *)
(***************************************************************************)
\* the answer is absent, the empty string or an empty array
isEmptyAnswer(value) ==
    value = Undefined \/ value = Str("") \/ value = Arr(<< >>)

\* C1: on a required field, advance with an effective answer (the override
\* value if one is given, otherwise the stored answer) that is absent, ""
\* or [] changes neither currentFieldId nor the history nor the answers, and
\* sets the error flag.
C1_RequiredAdvanceRejected ==
    \A overrideValue \in OverrideValues :
        (/\ currentFieldOf(Nav).required
         /\ isEmptyAnswer(effectiveValue(Nav, overrideValue)))
        => /\ handleNext(Nav, overrideValue).currentFieldId = currentFieldId
           /\ handleNext(Nav, overrideValue).navigationHistory = navigationHistory
           /\ handleNext(Nav, overrideValue).formData = formData
           /\ handleNext(Nav, overrideValue).error = TRUE

\* a rejected advance has happened on a required page that is not the last
\* step and whose stored answer is empty
C1_Witness ==
    /\ error
    /\ run.pc = "idle"
    /\ Len(navigationHistory) > 1
    /\ currentFieldOf(Nav).required
    /\ isEmptyAnswer(formData[currentFieldId])

\* the field the precedence of the specification resolves to: the rule
\* registered for the stringified answer if its target exists, otherwise
\* defaultNext if it is set and exists, otherwise the linear successor
claimedNext(f, value, fs) ==
    LET target == lookupRule(f.conditionalNext, answerKeyOf(f, value))
        index == getFieldIndex(fs, f.id)
    IN IF target # "" /\ (\E i \in 1..Len(fs) : fs[i].id = target) THEN target
       ELSE IF f.defaultNext # "" /\ (\E i \in 1..Len(fs) : fs[i].id = f.defaultNext)
            THEN f.defaultNext
       ELSE IF index + 2 <= Len(fs) THEN fs[index + 2].id
       ELSE ""

\* C2: every successful advance makes currentFieldId the conditionalNext
\* target of the stringified answer if it exists, otherwise defaultNext if
\* it is set and exists, otherwise the next field in linear order.
C2_AdvancePrecedence ==
    [][Len(navigationHistory') = Len(navigationHistory) + 1
       => currentFieldId' =
              claimedNext(currentFieldOf(Nav), usedAnswers'[Len(usedAnswers')], fields)]_vars

\* C3: whenever the history has more than one entry, going back and then
\* advancing with the answer that was used to leave the field returned to
\* (stored again, or handed over as override value) restores currentFieldId
\* and the history.
C3_RetreatAdvanceRoundTrip ==
    Len(navigationHistory) > 1 =>
        LET back == handlePrevious(Nav)
            answer == usedAnswers[Len(usedAnswers)]
            stored == handleNext(handleInputChange(back, back.currentFieldId, answer),
                                 Undefined)
            handed == handleNext(back, answer)
        IN /\ back.currentFieldId = navigationHistory[Len(navigationHistory) - 1]
           /\ stored.currentFieldId = currentFieldId
           /\ stored.navigationHistory = navigationHistory
           /\ answer # Undefined =>
                  /\ handed.currentFieldId = currentFieldId
                  /\ handed.navigationHistory = navigationHistory

\* the form went from q1 over a rule to q3, skipping q2, and the stored
\* answer of q1 is no longer the one that was used
C3_Witness ==
    /\ navigationHistory = <<"q1", "q3">>
    /\ currentFieldId = "q3"
    /\ usedAnswers # <<formData["q1"]>>

\* C10: with no submission action configured, a submit that passed
\* validation ends with submitted = true and the error flag false, without
\* the service being invoked and without any dispatch.
C10_FallbackSubmitSucceeds ==
    run.pc = "fallbackDone" =>
        /\ submitted
        /\ ~error
        /\ ~run.invoked
        /\ run.dispatched = << >>

C12_RetreatAtStartNoOp ==
    Len(navigationHistory) = 1 => handlePrevious(Nav) = Nav

\* C12, amended: going back while the history has exactly one entry leaves
\* currentFieldId, the history and the answers unchanged and sets the error
\* flag to false.
C12_RetreatAtStartClearsError ==
    Len(navigationHistory) = 1 =>
        LET back == handlePrevious(Nav)
        IN /\ back.currentFieldId = currentFieldId
           /\ back.navigationHistory = navigationHistory
           /\ back.formData = formData
           /\ ~back.error

\* the form is on its first page with one history entry after a rejected
\* advance, the error flag is set
C12_Witness ==
    /\ Len(navigationHistory) = 1
    /\ currentFieldId = "q1"
    /\ error
    /\ usedAnswers = << >>

\* C13: going back while the history has more than one entry removes
\* exactly the last entry, makes the new last entry the current field and
\* sets the error flag to false; every step that shortens the history does
\* exactly that and leaves the answers alone.
C13_RetreatPopsLast ==
    [][/\ Len(navigationHistory) > 1 =>
              Len(handlePrevious(Nav).navigationHistory) = Len(navigationHistory) - 1
       /\ Len(navigationHistory') < Len(navigationHistory) =>
              /\ navigationHistory' = SubSeq(navigationHistory, 1,
                                             Len(navigationHistory) - 1)
              /\ currentFieldId' = navigationHistory[Len(navigationHistory) - 1]
              /\ ~error'
              /\ formData' = formData]_vars

\* the form went over the second question to the third, which was answered,
\* and is back on the second
C13_Witness ==
    /\ navigationHistory = <<"q1", "q2">>
    /\ currentFieldId = "q2"
    /\ formData["q3"] = Str("Yes")
    /\ ~error

\* C14: isLastStep is true exactly if resolving the next field from the
\* current field and its stored answer yields no field: on a last step an
\* advance moves nowhere, and on any other step an advance that passes
\* validation appends a field to the history.
C14_LastStepIffNoNextField ==
    LET after == handleNext(Nav, Undefined)
    IN /\ isLastStep =>
              /\ after.currentFieldId = currentFieldId
              /\ after.navigationHistory = navigationHistory
       /\ (~isLastStep /\ validateCurrentField(Nav, Undefined)) =>
              /\ Len(after.navigationHistory) = Len(navigationHistory) + 1
              /\ after.currentFieldId # ""
              /\ after.currentFieldId = after.navigationHistory[Len(after.navigationHistory)]

\* the form is on the last field of the list, whose stored answer has a
\* rule, so that this field is not the last step
C14_Witness ==
    /\ currentFieldId = "q3"
    /\ fields[3].hasConditionalNext
    /\ formData["q3"] = Str("Yes")
    /\ ~isLastStep
    /\ Len(navigationHistory) > 1

\* the id names a field of the form
existsField(id) == \E i \in 1..Len(fields) : fields[i].id = id

\* the rule of field f for the answer, or its defaultNext, names no field
danglingTarget(f, value) ==
    LET target == lookupRule(f.conditionalNext, answerKeyOf(f, value))
    IN \/ target # "" /\ ~existsField(target)
       \/ f.defaultNext # "" /\ ~existsField(f.defaultNext)

\* C15: whatever the graph, currentFieldId and every entry of the history
\* name an existing field; an advance from a field whose rule for the
\* answer or whose defaultNext names no field does not enter that target
\* but goes to the next fallback: defaultNext if it exists, otherwise the
\* next field in linear order.
C15_DanglingTargetsNeverEntered ==
    /\ [](/\ existsField(currentFieldId)
          /\ \A i \in 1..Len(navigationHistory) : existsField(navigationHistory[i]))
    /\ [][(/\ Len(usedAnswers') = Len(usedAnswers) + 1
           /\ danglingTarget(currentFieldOf(Nav), usedAnswers'[Len(usedAnswers')]))
          => currentFieldId' =
                 claimedNext(currentFieldOf(Nav), usedAnswers'[Len(usedAnswers')],
                             fields)]_vars

\* the first question sent the answer Yes to a field that does not exist,
\* its defaultNext does not exist either, and the form went on to the
\* second question
C15_Witness ==
    /\ fields[1].hasConditionalNext
    /\ lookupRule(fields[1].conditionalNext, "Yes") = "ghost"
    /\ fields[1].defaultNext = "ghost"
    /\ navigationHistory = <<"q1", "q2">>
    /\ answerKeyOf(fields[1], usedAnswers[1]) = "Yes"

\* the options selected in the answer
selected(value) ==
    IF value.t = "array" THEN {value.a[i] : i \in 1..Len(value.a)} ELSE {}

\* C21: an input always stores its value, an empty value for a required
\* field included, and a checkbox toggle always stores the toggled
\* selection; neither sets the error flag nor changes currentFieldId or
\* the history, and every step that changes the answers changes nothing
\* else of the session.
C21_InputStoresWithoutValidation ==
    [][/\ \A v \in {Str(""), Str("Yes"), Str("No")} :
              handleInputChange(Nav, currentFieldId, v)
                  = [Nav EXCEPT !.formData = [formData EXCEPT ![currentFieldId] = v]]
       /\ \A o \in Options :
              LET t == handleCheckboxToggle(Nav, currentFieldId, o)
              IN /\ t.error = error
                 /\ t.currentFieldId = currentFieldId
                 /\ t.navigationHistory = navigationHistory
                 /\ t.formData[currentFieldId].t = "array"
                 /\ selected(t.formData[currentFieldId])
                        = IF o \in selected(formData[currentFieldId])
                          THEN selected(formData[currentFieldId]) \ {o}
                          ELSE selected(formData[currentFieldId]) \cup {o}
       /\ formData' # formData =>
              /\ error' = error
              /\ currentFieldId' = currentFieldId
              /\ navigationHistory' = navigationHistory
              /\ \A f \in FieldIds \ {currentFieldId} : formData'[f] = formData[f]]_vars

\* the required last question holds the empty text that was typed into it,
\* and the error flag is not set
C21_Witness ==
    /\ currentFieldId = "q3"
    /\ fields[3].required
    /\ formData["q3"] = Str("")
    /\ ~error
    /\ ~isSubmitting

\* C28: a successful advance from a field that has no conditionalNext
\* mapping and whose defaultNext names an existing field goes to
\* defaultNext.
C28_DefaultNextWithoutRules ==
    [][(/\ Len(navigationHistory') = Len(navigationHistory) + 1
        /\ ~currentFieldOf(Nav).hasConditionalNext
        /\ existsField(currentFieldOf(Nav).defaultNext))
       => currentFieldId' = currentFieldOf(Nav).defaultNext]_vars

\* C29: an advance whose validation passes and that resolves a next field
\* appends exactly that field to the end of the history, makes it the
\* current field and sets the error flag to false; every step that
\* lengthens the history does exactly that and leaves the answers alone.
C29_AdvanceAppendsOne ==
    [][/\ \A ov \in OverrideValues :
              LET nextFieldId == getNextFieldId(currentFieldOf(Nav),
                                                effectiveValue(Nav, ov), fields)
                  after == handleNext(Nav, ov)
              IN (validateCurrentField(Nav, ov) /\ nextFieldId # "")
                 => /\ after.navigationHistory = Append(navigationHistory, nextFieldId)
                    /\ after.currentFieldId = nextFieldId
                    /\ ~after.error
                    /\ after.formData = formData
       /\ Len(navigationHistory') > Len(navigationHistory) =>
              /\ navigationHistory' = Append(navigationHistory, currentFieldId')
              /\ existsField(currentFieldId')
              /\ ~error'
              /\ formData' = formData]_vars

\* the form went through all three questions in order and the last one is
\* still unanswered
C29_Witness ==
    /\ navigationHistory = <<"q1", "q2", "q3">>
    /\ currentFieldId = "q3"
    /\ Len(usedAnswers) = 2
    /\ formData["q3"] = Undefined
    /\ ~error

\* C30: when the answer an advance works on has no rule with an existing
\* target, defaultNext names no existing field and the current field is the
\* last of the list, the advance leaves currentFieldId, the history and the
\* answers unchanged, and with the stored answer the form is on its last
\* step.
C30_TerminalAdvanceIsNoOp ==
    \A ov \in OverrideValues :
        claimedNext(currentFieldOf(Nav), effectiveValue(Nav, ov), fields) = ""
        => /\ handleNext(Nav, ov).currentFieldId = currentFieldId
           /\ handleNext(Nav, ov).navigationHistory = navigationHistory
           /\ handleNext(Nav, ov).formData = formData
           /\ ov = Undefined => isLastStep

\* the form is on the last question, which has no rule and a valid answer
C30_Witness ==
    /\ currentFieldId = "q3"
    /\ ~fields[3].hasConditionalNext
    /\ formData["q3"] = Str("Yes")
    /\ isLastStep
    /\ ~error
    /\ Len(navigationHistory) = 3

\* C33: with a fixed field list, the last entry of the history is the
\* current field in every reachable state.
C33_HistoryEndsAtCurrent ==
    /\ Len(navigationHistory) >= 1
    /\ navigationHistory[Len(navigationHistory)] = currentFieldId

\* after an advance the form is on a question other than the first, with
\* an answer stored there and two entries in the history
C33_Witness ==
    /\ Len(navigationHistory) = 2
    /\ Len(usedAnswers) = 1
    /\ currentFieldId = navigationHistory[2]
    /\ currentFieldId # fields[1].id
    /\ formData[currentFieldId] # Undefined

\* C34: a step that changes the answers changes the answer of the current
\* field only and is no advance and no retreat: currentFieldId, the history
\* and the error flag stay; so an advance, with or without an override
\* value, accepted or rejected, and a retreat leave the answers alone, and
\* an override value is not stored.
C34_NavigationKeepsAnswers ==
    [][/\ formData' # formData =>
              /\ currentFieldId' = currentFieldId
              /\ navigationHistory' = navigationHistory
              /\ error' = error
              /\ \A f \in FieldIds \ {currentFieldId} : formData'[f] = formData[f]
       /\ (navigationHistory' # navigationHistory \/ usedAnswers' # usedAnswers) =>
              formData' = formData]_vars

\* an advance from the first question was made with an override value
\* while no answer is stored for that question
C34_Witness ==
    /\ Len(navigationHistory) = 2
    /\ Len(usedAnswers) = 1
    /\ usedAnswers[1] # Undefined
    /\ formData[navigationHistory[1]] = Undefined

\* no field of the list has conditionalNext
linearGraph == \A i \in 1..Len(fields) : ~fields[i].hasConditionalNext

C22_SelfHealOnFieldsChange ==
    /\ [](Len(fields) > 0 => existsField(currentFieldId))
    /\ [][(/\ fields' # fields
           /\ Len(fields') > 0
           /\ \A i \in 1..Len(fields') : fields'[i].id # currentFieldId)
          => /\ currentFieldId' = fields'[1].id
             /\ navigationHistory' = <<fields'[1].id>>]_vars

\* the first question was answered and left, then the list lost it while it
\* was on display again: the form is on the first field of the new list with
\* a history of one entry
C22_Witness ==
    /\ fields = <<PlainField("q2"), PlainField("q3")>>
    /\ currentFieldId = "q2"
    /\ navigationHistory = <<"q2">>
    /\ formData["q1"] = Str("Yes")
    /\ formData["q2"] = Str("Yes")
    /\ usedAnswers = << >>

(***************************************************************************)
(* Properties of the submission service (specification SpecRun).           *)
(***************************************************************************)
\* how often x occurs in the sequence xs
occurrences(xs, x) == Cardinality({k \in 1..Len(xs) : xs[k] = x})

\* the position of the configured action a in the sorted eligible list
positionOf(a) == CHOOSE p \in 1..Len(run.enabledActions) : run.enabledActions[p] = a

\* no action listed after action a in the sorted eligible list was dispatched
nothingDispatchedAfter(a) ==
    \A q \in 1..Len(run.enabledActions) :
        q > positionOf(a) => occurrences(run.dispatched, run.enabledActions[q]) = 0

\* C4: in sequential mode, once an action with onError = stop has failed
\* for good, the run is over and no action later in the sorted order has
\* been dispatched.
C4_StopOnErrorEndsRun ==
    ~executeInParallel =>
        \A i \in 1..Len(run.results) :
            (/\ ~run.results[i].success
             /\ submissionActions[run.results[i].action].onError = "stop")
            => /\ run.pc = "done"
               /\ i = Len(run.results)
               /\ nothingDispatchedAfter(run.results[i].action)

\* a sequential run of two eligible actions ended after the first one failed
\* with onError = stop
C4_Witness ==
    /\ ~executeInParallel
    /\ run.pc = "done"
    /\ Len(run.enabledActions) = 2
    /\ Len(run.results) = 1
    /\ ~run.results[1].success
    /\ submissionActions[run.results[1].action].onError = "stop"
    /\ run.dispatched = <<run.enabledActions[1]>>

\* C5: in sequential mode, once an action with onSuccess = stop has
\* succeeded, the run is over, no later action has been dispatched, and the
\* later actions appear neither in the results nor in the failed or skipped
\* counts.
C5_StopOnSuccessEndsRun ==
    ~executeInParallel =>
        \A i \in 1..Len(run.results) :
            (/\ run.results[i].success
             /\ submissionActions[run.results[i].action].onSuccess = "stop")
            => /\ run.pc = "done"
               /\ i = Len(run.results)
               /\ nothingDispatchedAfter(run.results[i].action)
               /\ \A k \in 1..Len(run.results) :
                      positionOf(run.results[k].action) <= positionOf(run.results[i].action)
               /\ run.summary.skipped = 0
               /\ run.summary.failed =
                      Cardinality({k \in 1..Len(run.outcomes) :
                          /\ ~run.outcomes[k].ok
                          /\ positionOf(run.outcomes[k].action) < positionOf(run.results[i].action)
                          /\ \A m \in (k + 1)..Len(run.outcomes) :
                                 run.outcomes[m].action # run.outcomes[k].action})

\* a sequential run of two eligible actions ended after the first one
\* succeeded with onSuccess = stop
C5_Witness ==
    /\ ~executeInParallel
    /\ run.pc = "done"
    /\ Len(run.enabledActions) = 2
    /\ Len(run.results) = 1
    /\ run.results[1].success
    /\ submissionActions[run.results[1].action].onSuccess = "stop"
    /\ run.dispatched = <<run.enabledActions[1]>>

\* the dispatches of the run that resolved (ok) or rejected (~ok)
settledWith(ok) == {k \in 1..Len(run.outcomes) : run.outcomes[k].ok = ok}

\* C6: in parallel mode every eligible action is dispatched once, the run
\* returns only when all of them have settled, and then successful and
\* failed count the dispatches that resolved and rejected, in whatever
\* order they settled; one success and one failure give success = false.
C6_ParallelSettlesAll ==
    (executeInParallel /\ run.invoked) =>
        /\ run.dispatched = run.enabledActions
        /\ run.pc = "done" <=> Len(run.outcomes) = Len(run.enabledActions)
        /\ run.pc # "done" => (run.results = << >> /\ isSubmitting /\ ~submitted)
        /\ run.pc = "done" =>
               /\ Len(run.results) = Len(run.enabledActions)
               /\ run.summary.successful = Cardinality(settledWith(TRUE))
               /\ run.summary.failed = Cardinality(settledWith(FALSE))
               /\ (Cardinality(settledWith(TRUE)) = 1 /\ Cardinality(settledWith(FALSE)) = 1)
                      => (~run.success /\ run.summary.successful = 1
                          /\ run.summary.failed = 1)

\* a parallel run of two actions is over; the second in order settled
\* first and failed, the first in order settled last and succeeded
C6_Witness ==
    /\ executeInParallel
    /\ run.pc = "done"
    /\ Len(run.enabledActions) = 2
    /\ run.outcomes = <<[action |-> run.enabledActions[2], ok |-> FALSE],
                        [action |-> run.enabledActions[1], ok |-> TRUE]>>

\* C7: in sequential mode an action with onError = retry is dispatched at
\* most retryAttempts times and never again after its first success, which
\* yields a single successful result and no failure; an action whose
\* onError is not retry is dispatched at most once.
C7_RetryBounded ==
    ~executeInParallel =>
        \A a \in 1..Len(submissionActions) :
            /\ submissionActions[a].onError = "retry"
                   => occurrences(run.dispatched, a) <= submissionActions[a].retryAttempts
            /\ submissionActions[a].onError # "retry"
                   => occurrences(run.dispatched, a) <= 1
            /\ \A k \in 1..Len(run.outcomes) :
                   (run.outcomes[k].action = a /\ run.outcomes[k].ok)
                   => /\ \A m \in (k + 1)..Len(run.outcomes) : run.outcomes[m].action # a
                      /\ occurrences(run.dispatched, a)
                             = Cardinality({m \in 1..k : run.outcomes[m].action = a})
                      /\ Cardinality({i \in 1..Len(run.results) : run.results[i].action = a}) = 1
                      /\ \A i \in 1..Len(run.results) :
                             run.results[i].action = a => run.results[i].success

\* a dispatcher failed twice and then succeeded: one successful result, two
\* backoff delays, nothing recorded as failed
C7_Witness ==
    /\ ~executeInParallel
    /\ run.pc = "done"
    /\ Len(run.outcomes) = 3
    /\ ~run.outcomes[1].ok /\ ~run.outcomes[2].ok /\ run.outcomes[3].ok
    /\ run.outcomes[1].action = run.outcomes[3].action
    /\ run.outcomes[2].action = run.outcomes[3].action
    /\ Len(run.delays) = 2
    /\ Len(run.results) = 1
    /\ run.results[1].success
    /\ run.summary.failed = 0

\* C8: in both modes the run reports success exactly if none of its
\* per-action results is a failure and at least one is a success.
C8_OverallSuccess ==
    (run.pc = "done" /\ run.invoked) =>
        (run.success <=>
            /\ \A i \in 1..Len(run.results) : run.results[i].success
            /\ \E i \in 1..Len(run.results) : run.results[i].success)

\* a run with a success and a failure is over
C8_Witness ==
    /\ run.pc = "done"
    /\ run.invoked
    /\ \E i, k \in 1..Len(run.results) : run.results[i].success /\ ~run.results[k].success
    /\ ~run.success

\* every configured action is disabled or gated off by its condition on the
\* answers of the run
noneEligible ==
    \A i \in 1..Len(submissionActions) :
        \/ ~submissionActions[i].enabled
        \/ (submissionActions[i].condition = "formData.q1 === 'Yes'"
            /\ run.formData["q1"] # Str("Yes"))

\* C9: a run over a non-empty list without any eligible action dispatches
\* nothing and reports success = false with no success and no failure; the
\* form shows the error and is not submitted.
C9_NothingEligibleFails ==
    (run.pc = "done" /\ run.invoked /\ Len(submissionActions) > 0 /\ noneEligible) =>
        /\ run.dispatched = << >>
        /\ ~run.success
        /\ run.summary.successful = 0
        /\ run.summary.failed = 0
        /\ error
        /\ ~submitted
        /\ ~isSubmitting

\* a run over two enabled actions, both gated off by their condition, is over
C9_Witness ==
    /\ run.pc = "done"
    /\ run.invoked
    /\ Len(submissionActions) = 2
    /\ \A i \in 1..2 : submissionActions[i].enabled
    /\ noneEligible
    /\ error

\* the enabled actions whose condition is false on the answers of the run
gatedOff ==
    {i \in 1..Len(submissionActions) :
        /\ submissionActions[i].enabled
        /\ submissionActions[i].condition = "formData.q1 === 'Yes'"
        /\ run.formData["q1"] # Str("Yes")}

\* C16: an enabled action whose condition is false is not dispatched and
\* is marked skipped: when the run is over, skipped equals the number of
\* enabled actions the condition filter removed, and failed counts only
\* results of actions that were dispatched.
C16_GatedOffCountedSkipped ==
    (run.pc = "done" /\ run.invoked) =>
        /\ \A i \in gatedOff : occurrences(run.dispatched, i) = 0
        /\ run.summary.skipped = Cardinality(gatedOff)
        /\ run.summary.failed =
               Cardinality({k \in 1..Len(run.results) :
                   ~run.results[k].success /\ run.results[k].action \notin gatedOff})

\* C17: in parallel mode the run returns only after every eligible action
\* has succeeded or exhausted its retries: an action with onError = retry
\* that is reported as failed has been dispatched retryAttempts times.
C17_ParallelExhaustsRetries ==
    (executeInParallel /\ run.invoked /\ run.pc = "done") =>
        \A p \in 1..Len(run.results) :
            LET a == run.results[p].action
            IN (~run.results[p].success /\ submissionActions[a].onError = "retry")
               => occurrences(run.dispatched, a) = maxAttempts(submissionActions[a])

\* the configured action a resolved (ok) or rejected (~ok) in this run
outcomeOf(a, ok) ==
    \E k \in 1..Len(run.outcomes) : run.outcomes[k] = [action |-> a, ok |-> ok]

\* C18: in parallel mode onSuccess = stop and onError = stop have no
\* effect: every eligible action is dispatched, and when the run is over
\* it is reported with its own outcome, whatever the other actions did and
\* whatever their stop directives say.
C18_ParallelIgnoresStop ==
    (executeInParallel /\ run.invoked) =>
        /\ \A p \in 1..Len(run.enabledActions) :
               occurrences(run.dispatched, run.enabledActions[p]) = 1
        /\ run.pc = "done" =>
               /\ Len(run.results) = Len(run.enabledActions)
               /\ \A p \in 1..Len(run.enabledActions) :
                      /\ run.results[p].action = run.enabledActions[p]
                      /\ run.results[p].success <=> outcomeOf(run.enabledActions[p], TRUE)
                      /\ ~run.results[p].success <=> outcomeOf(run.enabledActions[p], FALSE)

\* a parallel run of two actions is over: the first in order succeeded
\* with onSuccess = stop, the second failed with onError = stop, and both
\* are reported
C18_Witness ==
    /\ executeInParallel
    /\ run.pc = "done"
    /\ Len(run.enabledActions) = 2
    /\ submissionActions[run.enabledActions[1]].onSuccess = "stop"
    /\ submissionActions[run.enabledActions[2]].onError = "stop"
    /\ run.outcomes = <<[action |-> run.enabledActions[1], ok |-> TRUE],
                        [action |-> run.enabledActions[2], ok |-> FALSE]>>
    /\ Len(run.results) = 2

\* the k-th outcome is a rejection after which its action is not executed
\* again
failedForGood(k) ==
    /\ ~run.outcomes[k].ok
    /\ \A m \in (k + 1)..Len(run.outcomes) :
           run.outcomes[m].action # run.outcomes[k].action

\* a run that was started is either waiting for a dispatch or a backoff
\* timer or is over with an aggregated outcome that handleSubmit has
\* received; once it is over, every action that failed for good has a
\* failed result, and every failed result carries an error message
failuresAggregated ==
    run.invoked =>
        /\ run.pc \in {"dispatch", "parallel", "backoff", "done"}
        /\ run.pc \in {"dispatch", "parallel"} => (run.pending # {} /\ isSubmitting)
        /\ run.pc = "backoff" => isSubmitting
        /\ run.pc = "done" =>
               /\ ~isSubmitting
               /\ submitted <=> run.success
               /\ run.success <=> overallSuccess(run.summary)
               /\ run.summary.failed =
                      Cardinality({i \in 1..Len(run.results) : ~run.results[i].success})
               /\ \A k \in 1..Len(run.outcomes) :
                      failedForGood(k) =>
                          \E i \in 1..Len(run.results) :
                              /\ run.results[i].action = run.outcomes[k].action
                              /\ ~run.results[i].success
               /\ \A i \in 1..Len(run.results) :
                      ~run.results[i].success => run.results[i].error # ""

\* C19: whatever dispatches fail, in both modes, a run under way is over
\* at some point, with an aggregated outcome that handleSubmit has received
\* as a value; every action that failed for good is then reported as a
\* failed result, and every failed result carries an error message.
C19_FailuresAggregated ==
    /\ []failuresAggregated
    /\ (run.pc \in {"dispatch", "parallel", "backoff"}) ~> (run.pc = "done")

\* a sequential run in which both actions failed for good is over, the
\* first after its retries
C19_Witness ==
    /\ ~executeInParallel
    /\ run.pc = "done"
    /\ Len(run.outcomes) > 2
    /\ \A k \in 1..Len(run.outcomes) : ~run.outcomes[k].ok
    /\ run.outcomes[1].action = run.outcomes[2].action
    /\ Len(run.results) = 2
    /\ \A i \in 1..2 : run.results[i].error = "Webhook failed"
    /\ error

\* the k-th dispatch of the run is the first attempt of its action
firstAttempt(k) == \A j \in 1..(k - 1) : run.dispatched[j] # run.dispatched[k]

\* C25: in sequential mode at most one dispatch is in flight; a dispatch
\* starts only when every earlier one has settled, the first attempt of an
\* action only when the action before it in the sorted order has succeeded
\* or failed for good (no retry left, no backoff pending), and the
\* dispatches follow the sorted order.
C25_SequentialOneInFlight ==
    (~executeInParallel /\ run.invoked) =>
        /\ Cardinality(run.pending) <= 1
        /\ Len(run.dispatched) = Len(run.outcomes) + Cardinality(run.pending)
        /\ run.pc = "backoff" => run.pending = {}
        /\ \A k \in 1..Len(run.outcomes) : run.outcomes[k].action = run.dispatched[k]
        /\ \A j, k \in 1..Len(run.dispatched) :
               j < k => positionOf(run.dispatched[j]) <= positionOf(run.dispatched[k])
        /\ \A k \in 2..Len(run.dispatched) :
               firstAttempt(k) =>
                   LET a == run.dispatched[k - 1]
                   IN /\ positionOf(a) + 1 = positionOf(run.dispatched[k])
                      /\ \/ run.outcomes[k - 1].ok
                         \/ submissionActions[a].onError # "retry"
                         \/ occurrences(run.dispatched, a) = submissionActions[a].retryAttempts

\* a sequential run is over in which the first action failed three times
\* and the second was dispatched after that and succeeded
C25_Witness ==
    /\ ~executeInParallel
    /\ run.pc = "done"
    /\ Len(run.dispatched) = 4
    /\ run.dispatched[1] = run.dispatched[3]
    /\ run.dispatched[4] # run.dispatched[3]
    /\ Len(run.delays) = 2
    /\ run.outcomes[4].ok

\* C27: the actions considered for dispatch are exactly the enabled ones
\* (that pass their condition), in ascending order with ties in declaration
\* order; a disabled action is never dispatched, and the configured list
\* stays as it is.
C27_EnabledSortedStable ==
    /\ [](run.invoked =>
            /\ \A i \in 1..Len(submissionActions) :
                   (\E p \in 1..Len(run.enabledActions) : run.enabledActions[p] = i)
                   <=> (submissionActions[i].enabled /\ i \notin gatedOff)
            /\ \A p, q \in 1..Len(run.enabledActions) :
                   p < q =>
                       LET a == run.enabledActions[p]
                           b == run.enabledActions[q]
                       IN \/ submissionActions[a].order < submissionActions[b].order
                          \/ /\ submissionActions[a].order = submissionActions[b].order
                             /\ a < b
            /\ \A k \in 1..Len(run.dispatched) :
                   submissionActions[run.dispatched[k]].enabled)
    /\ [][submissionActions' = submissionActions]_vars

\* a sequential run over two enabled actions declared in descending order
\* dispatched the second one first
C27_Witness ==
    /\ Len(submissionActions) = 2
    /\ submissionActions[1].order = 2
    /\ submissionActions[2].order = 1
    /\ ~executeInParallel
    /\ run.dispatched = <<2, 1>>
    /\ run.pc = "done"

\* the number of the attempt that the k-th dispatch of the run is for its
\* action
attemptNo(k) == Cardinality({j \in 1..k : run.dispatched[j] = run.dispatched[k]})

\* the dispatches of the run that are retries, in the order they were made
retryDispatches ==
    SelectSeq([k \in 1..Len(run.dispatched) |-> k], LAMBDA k : attemptNo(k) > 1)

\* C31: in sequential mode the waits of a run are, in order, those before
\* its retries, the wait before the k-th retry of an action being 2^k
\* seconds, plus the wait under way if the run is in a backoff; so an
\* action that settled for good after m attempts, successful or not, has
\* m - 1 waits of 2, 4, ..., 2^(m-1) seconds behind it and none after its
\* last attempt, and a retried action that failed for good was attempted
\* retryAttempts times.
C31_ExponentialBackoff ==
    (~executeInParallel /\ run.invoked) =>
        LET waited == [i \in 1..Len(retryDispatches) |->
                          2 ^ (attemptNo(retryDispatches[i]) - 1)]
        IN /\ run.delays = IF run.pc = "backoff"
                           THEN Append(waited, 2 ^ run.attempt)
                           ELSE waited
           /\ run.pc = "backoff" => run.attempt < submissionActions[run.dispatched[Len(run.dispatched)]].retryAttempts
           /\ \A k \in 1..Len(run.outcomes) :
                  (/\ ~run.outcomes[k].ok
                   /\ submissionActions[run.outcomes[k].action].onError = "retry"
                   /\ (k < Len(run.dispatched) => firstAttempt(k + 1))
                   /\ run.pc # "backoff" \/ k < Len(run.outcomes))
                  => attemptNo(k) = submissionActions[run.outcomes[k].action].retryAttempts

\* an action succeeded on its third attempt after waits of 2 and 4 seconds
C31_Witness ==
    /\ ~executeInParallel
    /\ run.pc = "done"
    /\ Len(run.outcomes) = 3
    /\ ~run.outcomes[1].ok /\ ~run.outcomes[2].ok /\ run.outcomes[3].ok
    /\ attemptNo(3) = 3
    /\ run.delays = <<2, 4>>

\* C36: the results of a run are those of the first eligible actions in
\* their sorted order, one entry each, and the successful and failed counts
\* add up to their number; when the run is over the entries are those of
\* the actions that were dispatched, however often each was retried, and
\* in parallel mode those of the whole eligible list, in whatever order the
\* dispatches settled.
C36_ResultsFollowSortedOrder ==
    run.invoked =>
        /\ Len(run.results) <= Len(run.enabledActions)
        /\ \A i \in 1..Len(run.results) : run.results[i].action = run.enabledActions[i]
        /\ run.summary.successful
               = Cardinality({i \in 1..Len(run.results) : run.results[i].success})
        /\ run.summary.successful + run.summary.failed = Len(run.results)
        /\ run.pc = "done" =>
               /\ \A a \in 1..Len(submissionActions) :
                      occurrences(run.dispatched, a) > 0
                      <=> \E i \in 1..Len(run.results) : run.results[i].action = a
               /\ executeInParallel => Len(run.results) = Len(run.enabledActions)

\* a parallel run is over whose second action settled first, with a
\* different outcome than the first
C36_Witness ==
    /\ executeInParallel
    /\ run.pc = "done"
    /\ Len(run.results) = 2
    /\ run.outcomes[1].action = run.enabledActions[2]
    /\ run.outcomes[1].ok # run.outcomes[2].ok
    /\ run.results[1].action = run.enabledActions[1]

(***************************************************************************)
(* Properties of the condition filter (specification SpecCond).            *)
(***************************************************************************)
\* the expression is blank, does not parse, or reads a property of an
\* answer that is absent
failsOpen(condition, data) ==
    \/ condition \in {"", "   "}
    \/ condition = "formData.q1 ==="
    \/ condition = "formData.q1.includes('Yes')" /\ data["q1"] = Undefined

\* C20: an enabled action whose condition is absent, empty or blank, or
\* whose evaluation throws (an expression that does not parse, or one that
\* reads a property of an absent answer) is never skipped: it is eligible
\* in every run and has been dispatched when the run is over.
C20_ConditionFailsOpen ==
    run.invoked =>
        \A i \in 1..Len(submissionActions) :
            (submissionActions[i].enabled
             /\ failsOpen(submissionActions[i].condition, run.formData))
            => /\ evaluateCondition(submissionActions[i].condition, run.formData)
               /\ \E p \in 1..Len(run.enabledActions) : run.enabledActions[p] = i
               /\ run.pc = "done" => occurrences(run.dispatched, i) = 1

\* a run without an answer to q1 is over; the first action's condition
\* reads a property of that answer, the second's does not parse, and both
\* were dispatched
C20_Witness ==
    /\ run.pc = "done"
    /\ run.invoked
    /\ run.formData["q1"] = Undefined
    /\ Len(submissionActions) = 2
    /\ submissionActions[1].condition = "formData.q1.includes('Yes')"
    /\ submissionActions[2].condition = "formData.q1 ==="
    /\ run.dispatched = <<1, 2>>

(***************************************************************************)
(* Properties of a whole session (specification SpecSession).              *)
(***************************************************************************)
\* a run is between its start and its return
inFlight == run.pc \in {"dispatch", "parallel", "backoff"}

\* C23: a run captures the answers and the history when it starts and
\* hands exactly those to every dispatch and retry, whatever inputs,
\* advances and retreats happen while it is in flight; no step of the run
\* changes the session's answers, history or current field.
C23_RunWorksOnSnapshot ==
    /\ [](\A k \in 1..Len(run.payloads) : run.payloads[k] = submissionData(run))
    /\ [][/\ inFlight =>
                 /\ run'.formData = run.formData
                 /\ run'.navigationPath = run.navigationPath
          /\ (~inFlight /\ run' # run /\ run'.invoked) =>
                 /\ run'.formData = formData
                 /\ run'.navigationPath = navigationHistory
          /\ run' # run =>
                 /\ formData' = formData
                 /\ navigationHistory' = navigationHistory
                 /\ currentFieldId' = currentFieldId]_vars

\* an action is being retried while the answers and the history of the
\* session are no longer those the run started with
C23_Witness ==
    /\ run.pc = "dispatch"
    /\ run.attempt = 2
    /\ Len(run.payloads) = 2
    /\ formData # run.formData
    /\ navigationHistory # run.navigationPath
    /\ mounted

C26_TeardownDiscardsResults ==
    [][~mounted =>
           /\ submitted' = submitted
           /\ error' = error
           /\ isSubmitting' = isSubmitting
           /\ submissionResult' = submissionResult
           /\ run'.events = run.events]_vars

\* C32: in sequential mode an action that failed for good is followed by
\* the dispatch of the next action of the sorted list exactly if its
\* onError is not stop: continue, left out, or retry with its attempts used
\* up.
C32_NextDispatchedUnlessStop ==
    (~executeInParallel /\ run.invoked) =>
        \A i \in 1..Len(run.results) :
            LET a == run.results[i].action
            IN (~run.results[i].success /\ positionOf(a) < Len(run.enabledActions)) =>
                   (occurrences(run.dispatched, run.enabledActions[positionOf(a) + 1]) > 0
                    <=> submissionActions[a].onError # "stop")

\* the first action was retried, failed for good, and the second action
\* was dispatched
C32_Witness ==
    /\ ~executeInParallel
    /\ submissionActions[1].onError = "retry"
    /\ run.dispatched = <<1, 1, 2>>
    /\ Len(run.results) >= 1
    /\ ~run.results[1].success

\* the submit button can be pressed while the question on display is
\* required and has no answer, an empty text or an empty selection
submitWithoutAnswer ==
    /\ mounted
    /\ isLastStep
    /\ ~submitted
    /\ ~isSubmitting
    /\ currentFieldOf(Nav).required
    /\ isEmptyAnswer(formData[currentFieldId])

\* C37: a submit on a required question without an answer sets the error
\* flag and nothing else: no run starts, no action is dispatched, no event
\* is pushed, and the form is neither submitting nor submitted; no other
\* step from such a state starts a run either.
C37_SubmitNeedsAnswer ==
    [][submitWithoutAnswer =>
           /\ run' = run
           /\ ~isSubmitting'
           /\ ~submitted'
           /\ HandleSubmit => error']_vars

\* the required last question has no answer, the error flag is set and
\* nothing was ever submitted
C37_Witness ==
    /\ submitWithoutAnswer
    /\ currentFieldId = "q2"
    /\ error
    /\ ~run.invoked
    /\ run.events = << >>

outcomeEvents(r) ==
    SelectSeq(r.events, LAMBDA e : e \in {"form_submission_success",
                                          "form_submission_error"})

\* C39: a submission that passed validation is over at some point, and when
\* isSubmitting returns to false exactly one of submitted and error holds
\* and exactly one outcome event was pushed.
C39_SubmissionTerminates ==
    /\ isSubmitting ~> ~isSubmitting
    /\ [][(isSubmitting /\ ~isSubmitting') =>
              /\ submitted' # error'
              /\ Len(outcomeEvents(run')) = 1]_vars

(***************************************************************************)
(* Properties of the auto-advance (specification SpecAuto).                *)
(***************************************************************************)
\* a timer of the auto-advance fires in this step
timerFires == Len(autoAdvance'.timers) < Len(autoAdvance.timers)

\* C40: at most one auto-advance timer is pending, whatever the number of
\* triggers; when it fires none is left and the triggers before it are used
\* up, so they yield at most one advance; that advance is made with the
\* value of the last trigger, from a field that hides its next button and
\* on which the last user interaction took place; and a step that advances
\* without a timer firing uses the stored answer.
C40_AutoAdvanceDebounced ==
    /\ [](Len(autoAdvance.timers) <= 1)
    /\ [][/\ timerFires =>
                 /\ autoAdvance'.timers = << >>
                 /\ autoAdvance'.triggered = << >>
                 /\ Len(usedAnswers') <= Len(usedAnswers) + 1
                 /\ Len(usedAnswers') = Len(usedAnswers) + 1 =>
                        /\ autoAdvance.triggered # << >>
                        /\ usedAnswers'[Len(usedAnswers')]
                               = autoAdvance.triggered[Len(autoAdvance.triggered)]
                        /\ currentFieldOf(Nav).hideNextButton
                        /\ autoAdvance.lastInteraction = currentFieldId
          /\ (~timerFires /\ Len(usedAnswers') = Len(usedAnswers) + 1) =>
                 usedAnswers'[Len(usedAnswers')] = formData[currentFieldId]]_vars

\* the first question hides its next button; after several clicks on its
\* options one timer fired and the form advanced once, with the option
\* clicked last
C40_Witness ==
    /\ fields[1].hideNextButton
    /\ autoAdvance.lastBurst >= 2
    /\ navigationHistory = <<"q1", "q2">>
    /\ usedAnswers = <<formData["q1"]>>
    /\ autoAdvance.timers = << >>

====
